---------------------------- MODULE Spec2Model ----------------------------
(***************************************************************************)
(* A model of the KPI pipeline of prueba-tecnica-http-client-etl:          *)
(*   calcular_kpi.py    read_jsonl -> compute_kpis -> write_csv            *)
(*   generar_reporte.py compute_global_metrics, build_endpoint_table,      *)
(*                      render_html                                        *)
(* and of request_with_retry of http_client.py.                            *)
(*                                                                         *)
(* Representation.                                                         *)
(*   - A Python str is a sequence of one-character strings, so that        *)
(*     strip / split / startswith / strptime / int() / float() are         *)
(*     computed character by character.                                    *)
(*   - A JSON value (what dict.get returns) is a tagged record; an absent  *)
(*     key and a JSON null are both Python None.                           *)
(*   - Latencies are decimals with two digits, held as integers in units   *)
(*     of 0.01 ms. The mean of a group is computed in float64, as np.mean  *)
(*     computes it, and rounded as round(x, 2) rounds it. Percentiles and  *)
(*     the figures of the report are exact rationals (their binary         *)
(*     rounding error is not modelled).                                    *)
(***************************************************************************)
EXTENDS Integers, Sequences, FiniteSets, TLC

-----------------------------------------------------------------------------
(* Python str helpers *)

Digits == <<"0", "1", "2", "3", "4", "5", "6", "7", "8", "9">>

IsDigit(c) == c \in {"0", "1", "2", "3", "4", "5", "6", "7", "8", "9"}

DigitVal(c) == (CHOOSE d \in 1..10 : Digits[d] = c) - 1

IsSpace(c) == c \in {" ", "\t", "\n", "\r"}

RECURSIVE LStrip(_)
LStrip(s) == IF s # <<>> /\ IsSpace(Head(s)) THEN LStrip(Tail(s)) ELSE s

RECURSIVE RStrip(_)
RStrip(s) ==
    IF s # <<>> /\ IsSpace(s[Len(s)]) THEN RStrip(SubSeq(s, 1, Len(s) - 1)) ELSE s

\* str.strip()
Strip(s) == RStrip(LStrip(s))

\* number of consecutive decimal digits of s starting at index i
RECURSIVE RunLen(_, _)
RunLen(s, i) == IF i <= Len(s) /\ IsDigit(s[i]) THEN 1 + RunLen(s, i + 1) ELSE 0

\* value of the n decimal digits of s starting at index i
RECURSIVE NumVal(_, _, _)
NumVal(s, i, n) ==
    IF n = 0 THEN 0 ELSE NumVal(s, i, n - 1) * 10 + DigitVal(s[i + n - 1])

AllDigits(s) == s # <<>> /\ RunLen(s, 1) = Len(s)

\* decimal digits of a natural number (str(n) for n >= 0)
RECURSIVE NatToStr(_)
NatToStr(n) ==
    IF n < 10 THEN <<Digits[n + 1]>> ELSE NatToStr(n \div 10) \o <<Digits[(n % 10) + 1]>>

IntToStr(n) == IF n < 0 THEN <<"-">> \o NatToStr(0 - n) ELSE NatToStr(n)

\* index of the first occurrence of c in s, 0 if none
RECURSIVE IndexOf(_, _, _)
IndexOf(s, c, i) ==
    IF i > Len(s) THEN 0 ELSE IF s[i] = c THEN i ELSE IndexOf(s, c, i + 1)

\* s.startswith(p)
StartsWith(s, p) == Len(s) >= Len(p) /\ SubSeq(s, 1, Len(p)) = p

-----------------------------------------------------------------------------
(* JSON values as dict.get returns them *)

JNull == [tag |-> "null", s |-> <<>>, n |-> 0]

JStr(str) == [tag |-> "str", s |-> str, n |-> 0]

JInt(i) == [tag |-> "int", s |-> <<>>, n |-> i]

\* a JSON number with a fraction, in hundredths
JFloat(c) == [tag |-> "float", s |-> <<>>, n |-> c]

JBool(b) == [tag |-> "bool", s |-> <<>>, n |-> IF b THEN 1 ELSE 0]

IsNone(v) == v.tag = "null"

Raised == [ok |-> FALSE, v |-> 0]

Value(x) == [ok |-> TRUE, v |-> x]

\* int(str): strip, optional sign, decimal digits; anything else is ValueError
\* (digit-group underscores are outside the inputs of the model)
IntOfStr(str) ==
    LET t == Strip(str)
        signed == t # <<>> /\ Head(t) \in {"+", "-"}
        body == IF signed THEN Tail(t) ELSE t
    IN  IF AllDigits(body)
        THEN Value(IF signed /\ Head(t) = "-" THEN 0 - NumVal(body, 1, Len(body))
                   ELSE NumVal(body, 1, Len(body)))
        ELSE Raised

\* truncation toward zero of c hundredths
TruncCenti(c) == IF c >= 0 THEN c \div 100 ELSE 0 - ((0 - c) \div 100)

\* int(x) for a JSON value: None raises TypeError, a str is parsed, a float is
\* truncated toward zero, a bool is 0/1
PyInt(v) ==
    CASE v.tag = "null" -> Raised
      [] v.tag = "str" -> IntOfStr(v.s)
      [] v.tag = "int" -> Value(v.n)
      [] v.tag = "bool" -> Value(v.n)
      [] v.tag = "float" -> Value(TruncCenti(v.n))

\* float(str) in hundredths: strip, optional sign, digits [. digits] or . digits;
\* fraction digits after the second are below the resolution of the model
\* (exponents, inf and nan are outside the inputs of the model)
FloatOfStr(str) ==
    LET t == Strip(str)
        signed == t # <<>> /\ Head(t) \in {"+", "-"}
        body == IF signed THEN Tail(t) ELSE t
        dot == IndexOf(body, ".", 1)
        ip == IF dot = 0 THEN body ELSE SubSeq(body, 1, dot - 1)
        fp == IF dot = 0 THEN <<>> ELSE SubSeq(body, dot + 1, Len(body))
        wellformed == /\ ip = <<>> \/ AllDigits(ip)
                      /\ fp = <<>> \/ AllDigits(fp)
                      /\ ip # <<>> \/ fp # <<>>
        iv == NumVal(ip, 1, Len(ip))
        fv == CASE Len(fp) = 0 -> 0
                [] Len(fp) = 1 -> NumVal(fp, 1, 1) * 10
                [] OTHER -> NumVal(fp, 1, 2)
        mag == iv * 100 + fv
    IN  IF wellformed
        THEN Value(IF signed /\ Head(t) = "-" THEN 0 - mag ELSE mag)
        ELSE Raised

\* float(x) for a JSON value, in hundredths
PyFloat(v) ==
    CASE v.tag = "null" -> Raised
      [] v.tag = "str" -> FloatOfStr(v.s)
      [] v.tag = "int" -> Value(v.n * 100)
      [] v.tag = "bool" -> Value(v.n * 100)
      [] v.tag = "float" -> Value(v.n)

\* repr of a float of c hundredths: "120.5", "120.0", "0.25"
FloatToStr(c) ==
    LET m == IF c < 0 THEN 0 - c ELSE c
        f == m % 100
        frac == IF f % 10 = 0 THEN <<Digits[(f \div 10) + 1]>>
                ELSE <<Digits[(f \div 10) + 1], Digits[(f % 10) + 1]>>
    IN  (IF c < 0 THEN <<"-">> ELSE <<>>) \o NatToStr(m \div 100) \o <<".">> \o frac

\* str(x) for a JSON value
PyStr(v) ==
    CASE v.tag = "null" -> <<"N", "o", "n", "e">>
      [] v.tag = "str" -> v.s
      [] v.tag = "int" -> IntToStr(v.n)
      [] v.tag = "bool" -> IF v.n = 1 THEN <<"T", "r", "u", "e">>
                                      ELSE <<"F", "a", "l", "s", "e">>
      [] v.tag = "float" -> FloatToStr(v.n)

-----------------------------------------------------------------------------
(* calcular_kpi.py: parse_date_utc *)

\* s[i], or "" past the end
At(s, i) == IF i \in 1..Len(s) THEN s[i] ELSE ""

IsLeap(y) == (y % 4 = 0 /\ y % 100 # 0) \/ y % 400 = 0

DaysInMonth(y, m) ==
    IF m = 2 THEN (IF IsLeap(y) THEN 29 ELSE 28)
    ELSE IF m \in {4, 6, 9, 11} THEN 30 ELSE 31

Pad2(n) == <<Digits[(n \div 10) + 1], Digits[(n % 10) + 1]>>

Pad4(n) == Pad2(n \div 100) \o Pad2(n % 100)

\* datetime.strptime(ts, "%Y-%m-%dT%H:%M:%SZ").strftime("%Y-%m-%d").
\* %Y takes exactly four digits; %m %d %H %M %S take one or two digits (every
\* field is followed by a non-digit literal, so the field is the whole digit
\* run); the literals T and Z match in either case; the whole string must be
\* consumed; the field ranges and the calendar are validated.  A failure is
\* ValueError.  (The " 5" spelling of a day is outside the inputs of the model.)
parse_date_utc(s) ==
    LET yn == RunLen(s, 1)
        mi == 6
        mn == RunLen(s, mi)
        di == mi + mn + 1
        dn == RunLen(s, di)
        hi == di + dn + 1
        hn == RunLen(s, hi)
        ni == hi + hn + 1
        nn == RunLen(s, ni)
        si == ni + nn + 1
        sn == RunLen(s, si)
        zi == si + sn
        shape == /\ yn = 4 /\ At(s, 5) = "-"
                 /\ mn \in {1, 2} /\ At(s, mi + mn) = "-"
                 /\ dn \in {1, 2} /\ At(s, di + dn) \in {"T", "t"}
                 /\ hn \in {1, 2} /\ At(s, hi + hn) = ":"
                 /\ nn \in {1, 2} /\ At(s, ni + nn) = ":"
                 /\ sn \in {1, 2} /\ At(s, zi) \in {"Z", "z"}
                 /\ zi = Len(s)
        y == NumVal(s, 1, 4)
        m == NumVal(s, mi, mn)
        d == NumVal(s, di, dn)
        h == NumVal(s, hi, hn)
        n == NumVal(s, ni, nn)
        sec == NumVal(s, si, sn)
    IN  IF /\ shape
           /\ y >= 1 /\ m \in 1..12 /\ d \in 1..DaysInMonth(y, m)
           /\ h \in 0..23 /\ n \in 0..59 /\ sec \in 0..59
        THEN [ok |-> TRUE, date |-> Pad4(y) \o <<"-">> \o Pad2(m) \o <<"-">> \o Pad2(d)]
        ELSE [ok |-> FALSE, date |-> <<>>]

-----------------------------------------------------------------------------
(* calcular_kpi.py: normalize_endpoint *)

StatusPrefix == <<"/", "s", "t", "a", "t", "u", "s", "/">>

BasicAuthPrefix == <<"/", "b", "a", "s", "i", "c", "-", "a", "u", "t", "h", "/">>

\* endpoint.split("?", 1)[0], then the two known variable-path families
normalize_endpoint(endpoint) ==
    LET q == IndexOf(endpoint, "?", 1)
        base == IF q = 0 THEN endpoint ELSE SubSeq(endpoint, 1, q - 1)
    IN  IF StartsWith(base, StatusPrefix) THEN SubSeq(StatusPrefix, 1, 7)
        ELSE IF StartsWith(base, BasicAuthPrefix) THEN SubSeq(BasicAuthPrefix, 1, 11)
        ELSE base

-----------------------------------------------------------------------------
(* calcular_kpi.py: Agg *)

OkStr == <<"o", "k">>

ErrorStr == <<"e", "r", "r", "o", "r">>

\* Agg(elapsed=[])
NewAgg ==
    [elapsed |-> <<>>, requests_total |-> 0, success_2xx |-> 0, client_4xx |-> 0,
     server_5xx |-> 0, parse_errors |-> 0]

\* Agg.add with the 4xx test widened to 300-499
Agg_add_3xx_as_4xx(a, status_code, elapsed_ms, parse_result) ==
    [elapsed |-> Append(a.elapsed, elapsed_ms),
     requests_total |-> a.requests_total + 1,
     success_2xx |->
        a.success_2xx + (IF 200 <= status_code /\ status_code <= 299 THEN 1 ELSE 0),
     client_4xx |->
        a.client_4xx + (IF 300 <= status_code /\ status_code <= 499 THEN 1 ELSE 0),
     server_5xx |->
        a.server_5xx + (IF 500 <= status_code /\ status_code <= 599 THEN 1 ELSE 0),
     parse_errors |-> a.parse_errors + (IF parse_result # OkStr THEN 1 ELSE 0)]

\* Agg.add counting only parse_result == "error"
Agg_add_only_error(a, status_code, elapsed_ms, parse_result) ==
    [elapsed |-> Append(a.elapsed, elapsed_ms),
     requests_total |-> a.requests_total + 1,
     success_2xx |->
        a.success_2xx + (IF 200 <= status_code /\ status_code <= 299 THEN 1 ELSE 0),
     client_4xx |->
        a.client_4xx + (IF 400 <= status_code /\ status_code <= 499 THEN 1 ELSE 0),
     server_5xx |->
        a.server_5xx + (IF 500 <= status_code /\ status_code <= 599 THEN 1 ELSE 0),
     parse_errors |-> a.parse_errors + (IF parse_result = ErrorStr THEN 1 ELSE 0)]

\* Agg.add
Agg_add(a, status_code, elapsed_ms, parse_result) ==
    [elapsed |-> Append(a.elapsed, elapsed_ms),
     requests_total |-> a.requests_total + 1,
     success_2xx |->
        a.success_2xx + (IF 200 <= status_code /\ status_code <= 299 THEN 1 ELSE 0),
     client_4xx |->
        a.client_4xx + (IF 400 <= status_code /\ status_code <= 499 THEN 1 ELSE 0),
     server_5xx |->
        a.server_5xx + (IF 500 <= status_code /\ status_code <= 599 THEN 1 ELSE 0),
     parse_errors |-> a.parse_errors + (IF parse_result # OkStr THEN 1 ELSE 0)]

\* groups is the defaultdict of compute_kpis: its entries in insertion order
KeyIndex(g, k) ==
    IF \E i \in 1..Len(g) : g[i].key = k
    THEN CHOOSE i \in 1..Len(g) : g[i].key = k
    ELSE 0

\* groups[(date_utc, endpoint_base)].add(sc, ems, pr)
GroupsAdd(g, k, sc, ems, pr) ==
    LET i == KeyIndex(g, k)
    IN  IF i = 0 THEN Append(g, [key |-> k, agg |-> Agg_add(NewAgg, sc, ems, pr)])
        ELSE [g EXCEPT ![i].agg = Agg_add(@, sc, ems, pr)]

-----------------------------------------------------------------------------
(* calcular_kpi.py: the body of the loop of compute_kpis *)

\* the coercions without parse_result = "error" in the second except block
Coerce_elapsed_keeps_result(r) ==
    LET ci == PyInt(r.status_code)
        cf == PyFloat(r.elapsed_ms)
        pr1 == IF ci.ok THEN r.parse_result ELSE JStr(ErrorStr)
    IN  [sc |-> IF ci.ok THEN ci.v ELSE 0,
         ems |-> IF cf.ok THEN cf.v ELSE 0,
         pr |-> IF IsNone(pr1) THEN ErrorStr ELSE PyStr(pr1)]

\* the two coercions and the resolved parse_result of a record
Coerce(r) ==
    LET ci == PyInt(r.status_code)
        cf == PyFloat(r.elapsed_ms)
        pr1 == IF ci.ok THEN r.parse_result ELSE JStr(ErrorStr)
        pr2 == IF cf.ok THEN pr1 ELSE JStr(ErrorStr)
    IN  [sc |-> IF ci.ok THEN ci.v ELSE 0,
         ems |-> IF cf.ok THEN cf.v ELSE 0,
         pr |-> IF IsNone(pr2) THEN ErrorStr ELSE PyStr(pr2)]

\* the loop body testing only "ts is None"
LoopBody_ts_only(g, r) ==
    IF IsNone(r.timestamp_utc)
    THEN [outcome |-> "continue", groups |-> g]
    ELSE LET dt == parse_date_utc(PyStr(r.timestamp_utc))
         IN  IF ~dt.ok THEN [outcome |-> "raise", groups |-> g]
             ELSE [outcome |-> "add",
                   groups |-> GroupsAdd(g, <<dt.date, normalize_endpoint(PyStr(r.endpoint))>>,
                                        Coerce(r).sc, Coerce(r).ems, Coerce(r).pr)]

\* the loop body with strptime guarded: a malformed timestamp drops the record
LoopBody_guarded_strptime(g, r) ==
    IF IsNone(r.timestamp_utc) \/ IsNone(r.endpoint)
    THEN [outcome |-> "continue", groups |-> g]
    ELSE LET dt == parse_date_utc(PyStr(r.timestamp_utc))
         IN  IF ~dt.ok THEN [outcome |-> "continue", groups |-> g]
             ELSE [outcome |-> "add",
                   groups |-> GroupsAdd(g, <<dt.date, normalize_endpoint(PyStr(r.endpoint))>>,
                                        Coerce(r).sc, Coerce(r).ems, Coerce(r).pr)]

\* one iteration on record r: "continue" (record dropped), "raise" (strptime's
\* ValueError leaves compute_kpis) or "add"
LoopBody(g, r) ==
    IF IsNone(r.timestamp_utc) \/ IsNone(r.endpoint)
    THEN [outcome |-> "continue", groups |-> g]
    ELSE LET dt == parse_date_utc(PyStr(r.timestamp_utc))
             c == Coerce(r)
         IN  IF ~dt.ok THEN [outcome |-> "raise", groups |-> g]
             ELSE [outcome |-> "add",
                   groups |-> GroupsAdd(g, <<dt.date, normalize_endpoint(PyStr(r.endpoint))>>,
                                        c.sc, c.ems, c.pr)]

-----------------------------------------------------------------------------
(* numpy / round as the KPI stage uses them *)

\* round-half-to-even of num/den (den > 0) to an integer
RoundHalfEven(num, den) ==
    LET q == num \div den
        r == num - q * den
    IN  IF 2 * r < den THEN q
        ELSE IF 2 * r > den THEN q + 1
        ELSE IF q % 2 = 0 THEN q ELSE q + 1

\* x inserted into the ascending sequence s, after the elements equal to it
RECURSIVE InsertAsc(_, _)
InsertAsc(s, x) ==
    IF s = <<>> THEN <<x>>
    ELSE IF x < Head(s) THEN <<x>> \o s
    ELSE <<Head(s)>> \o InsertAsc(Tail(s), x)

RECURSIVE SortAsc(_)
SortAsc(s) == IF s = <<>> THEN <<>> ELSE InsertAsc(SortAsc(SubSeq(s, 1, Len(s) - 1)), s[Len(s)])

\* np.percentile(xs, 90), method "linear", as the rational num/10: the virtual
\* index is 0.9*(n-1) = lo + k/10 and the value xs[lo] + (xs[lo+1]-xs[lo])*k/10
Percentile90Num(xs) ==
    LET srt == SortAsc(xs)
        n == Len(xs)
        lo == (9 * (n - 1)) \div 10
        k == (9 * (n - 1)) % 10
        hi == IF lo + 1 <= n - 1 THEN lo + 1 ELSE n - 1
    IN  10 * srt[lo + 1] + k * (srt[hi + 1] - srt[lo + 1])

\* A float64 that is not negative, as the integer x * 2^FracBits in four
\* limbs of LimbBits bits, lowest first
LimbBits == 24

Limb == 2 ^ LimbBits

FracBits == 70

\* the bits of a float64 significand
SignificandBits == 53

BigZero == <<0, 0, 0, 0>>

BigAdd(a, b) ==
    LET s1 == a[1] + b[1]
        s2 == a[2] + b[2] + s1 \div Limb
        s3 == a[3] + b[3] + s2 \div Limb
        s4 == a[4] + b[4] + s3 \div Limb
    IN  <<s1 % Limb, s2 % Limb, s3 % Limb, s4>>

\* a * k, k < 128
BigMulSmall(a, k) ==
    LET s1 == a[1] * k
        s2 == a[2] * k + s1 \div Limb
        s3 == a[3] * k + s2 \div Limb
        s4 == a[4] * k + s3 \div Limb
    IN  <<s1 % Limb, s2 % Limb, s3 % Limb, s4>>

\* quotient and remainder of a by k, 0 < k < 128
BigDivSmall(a, k) ==
    LET t4 == a[4]
        t3 == (t4 % k) * Limb + a[3]
        t2 == (t3 % k) * Limb + a[2]
        t1 == (t2 % k) * Limb + a[1]
    IN  [q |-> <<t1 \div k, t2 \div k, t3 \div k, t4 \div k>>, r |-> t1 % k]

BigLess(a, b) ==
    \E i \in 1..4 : a[i] < b[i] /\ \A j \in (i + 1)..4 : a[j] = b[j]

RECURSIVE BitLenInt(_)
BitLenInt(x) == IF x = 0 THEN 0 ELSE 1 + BitLenInt(x \div 2)

BitLen(a) ==
    IF a = BigZero THEN 0
    ELSE LET top == CHOOSE i \in 1..4 : a[i] # 0 /\ \A j \in (i + 1)..4 : a[j] = 0
         IN  LimbBits * (top - 1) + BitLenInt(a[top])

Pow2Big(j) == [i \in 1..4 |-> IF i = j \div LimbBits + 1 THEN 2 ^ (j % LimbBits) ELSE 0]

BitAt(a, j) == (a[j \div LimbBits + 1] \div 2 ^ (j % LimbBits)) % 2

\* a mod 2^d
LowBits(a, d) ==
    [i \in 1..4 |->
        IF LimbBits * i <= d THEN a[i]
        ELSE IF LimbBits * (i - 1) >= d THEN 0
        ELSE a[i] % 2 ^ (d - LimbBits * (i - 1))]

ClearLow(a, d) == [i \in 1..4 |-> a[i] - LowBits(a, d)[i]]

\* the float64 nearest to a (plus a positive fraction below one unit when
\* sticky), ties to even
RoundToDouble(a, sticky) ==
    LET d == BitLen(a) - SignificandBits
    IN  IF d <= 0 THEN a
        ELSE LET low == LowBits(a, d)
                 half == Pow2Big(d - 1)
                 up == \/ BigLess(half, low)
                       \/ low = half /\ (sticky \/ BitAt(a, d) = 1)
             IN  IF up THEN BigAdd(ClearLow(a, d), Pow2Big(d)) ELSE ClearLow(a, d)

\* the float64 of the decimal n/100, n >= 0: what json.loads and float() make
\* of a literal with two decimals
DoubleOfCenti(n) ==
    LET shift == FracBits - 2 * LimbBits
        per == 2 ^ (LimbBits - shift)
        dv == BigDivSmall(<<0, 0, (n % per) * 2 ^ shift, n \div per>>, 100)
    IN  RoundToDouble(dv.q, dv.r # 0)

\* np.add.reduce over fewer than 8 float64: one accumulator, left to right
RECURSIVE NpSum(_)
NpSum(xs) ==
    IF xs = <<>> THEN BigZero
    ELSE RoundToDouble(BigAdd(NpSum(SubSeq(xs, 1, Len(xs) - 1)), DoubleOfCenti(xs[Len(xs)])),
                       FALSE)

\* float(np.mean(xs)): the sum divided by the count
NpMean(xs) ==
    LET dv == BigDivSmall(NpSum(xs), Len(xs))
    IN  RoundToDouble(dv.q, dv.r # 0)

\* round(x, 2) of Python, in hundredths: the decimal with two digits nearest
\* to the exact value of the float, ties to even
PyRound2(x) ==
    LET m == BigMulSmall(x, 100)
        h == m[3] \div 2 ^ (FracBits - 2 * LimbBits) + m[4] * 2 ^ (3 * LimbBits - FracBits)
        low == LowBits(m, FracBits)
        half == Pow2Big(FracBits - 1)
    IN  IF BigLess(half, low) \/ (low = half /\ h % 2 = 1) THEN h + 1 ELSE h

\* Agg.avg_elapsed_ms
Agg_avg_elapsed_ms(a) == IF a.elapsed # <<>> THEN NpMean(a.elapsed) ELSE BigZero

\* round(Agg.p90_elapsed_ms(), 2), in hundredths
Agg_p90_elapsed_ms(a) ==
    IF a.elapsed # <<>> THEN RoundHalfEven(Percentile90Num(a.elapsed), 10) ELSE 0

-----------------------------------------------------------------------------
(* calcular_kpi.py: write_csv *)

\* the printable ASCII characters in code point order, from 32 (the quote, the
\* backslash and the backtick are spelled out: no key of the model holds one)
Ascii ==
    <<" ", "!", "QUOTE", "#", "$", "%", "&", "'", "(", ")", "*", "+", ",", "-",
      ".", "/", "0", "1", "2", "3", "4", "5", "6", "7", "8", "9", ":", ";",
      "<", "=", ">", "?", "@", "A", "B", "C", "D", "E", "F", "G", "H", "I",
      "J", "K", "L", "M", "N", "O", "P", "Q", "R", "S", "T", "U", "V", "W",
      "X", "Y", "Z", "[", "BACKSLASH", "]", "^", "_", "BACKTICK", "a", "b", "c", "d", "e",
      "f", "g", "h", "i", "j", "k", "l", "m", "n", "o", "p", "q", "r", "s",
      "t", "u", "v", "w", "x", "y", "z", "{", "|", "}", "~">>

CharCode(c) == 31 + CHOOSE i \in 1..Len(Ascii) : Ascii[i] = c

\* a < b for Python str
RECURSIVE StrLess(_, _)
StrLess(a, b) ==
    IF b = <<>> THEN FALSE
    ELSE IF a = <<>> THEN TRUE
    ELSE IF Head(a) = Head(b) THEN StrLess(Tail(a), Tail(b))
    ELSE CharCode(Head(a)) < CharCode(Head(b))

\* (date_utc, endpoint_base) tuples compared as Python compares them
KeyLess(k1, k2) == StrLess(k1[1], k2[1]) \/ (k1[1] = k2[1] /\ StrLess(k1[2], k2[2]))

RECURSIVE InsertByKey(_, _)
InsertByKey(s, e) ==
    IF s = <<>> THEN <<e>>
    ELSE IF KeyLess(e.key, Head(s).key) THEN <<e>> \o s
    ELSE <<Head(s)>> \o InsertByKey(Tail(s), e)

\* sorted(groups.items(), key=lambda kv: (kv[0][0], kv[0][1]))
RECURSIVE SortedItems(_)
SortedItems(g) ==
    IF g = <<>> THEN <<>>
    ELSE InsertByKey(SortedItems(SubSeq(g, 1, Len(g) - 1)), g[Len(g)])

\* the dict that w.writerow receives
KpiRow(e) ==
    [date_utc |-> e.key[1], endpoint_base |-> e.key[2],
     requests_total |-> e.agg.requests_total, success_2xx |-> e.agg.success_2xx,
     client_4xx |-> e.agg.client_4xx, server_5xx |-> e.agg.server_5xx,
     parse_errors |-> e.agg.parse_errors,
     avg_elapsed_ms |-> PyRound2(Agg_avg_elapsed_ms(e.agg)),
     p90_elapsed_ms |-> Agg_p90_elapsed_ms(e.agg)]

\* the rows write_csv writes after the header
write_csv(g) == LET items == SortedItems(g) IN [i \in 1..Len(items) |-> KpiRow(items[i])]

-----------------------------------------------------------------------------
(* Floats of generar_reporte.py: an exact rational, or the inf / nan that a  *)
(* pandas division by zero yields instead of raising                         *)

Fin(n, d) == [k |-> "fin", num |-> n, den |-> d]

NaN == [k |-> "nan", num |-> 0, den |-> 1]

Inf == [k |-> "inf", num |-> 0, den |-> 1]

Zero == Fin(0, 1)

IsZero(f) == f.k = "fin" /\ f.num = 0

\* Series / Series for non-negative integer columns
SeriesDiv(a, b) == IF b # 0 THEN Fin(a, b) ELSE IF a = 0 THEN NaN ELSE Inf

\* Series * 100.0
Times100(f) == IF f.k = "fin" THEN Fin(f.num * 100, f.den) ELSE f

\* Series.where(cond, other)
Where(f, cond, other) == IF cond THEN f ELSE other

\* Series.round(2), as a rational with denominator 100
Round2(f) == IF f.k = "fin" THEN Fin(RoundHalfEven(f.num * 100, f.den), 100) ELSE f

\* float(v) > umbral_p90, umbral_p90 in hundredths; a nan compares false
GreaterThan(f, umbral) ==
    CASE f.k = "fin" -> f.num * 100 > umbral * f.den
      [] f.k = "inf" -> TRUE
      [] f.k = "nan" -> FALSE

Max(a, b) == IF a >= b THEN a ELSE b

-----------------------------------------------------------------------------
(* generar_reporte.py: compute_global_metrics *)

RECURSIVE SumCol(_, _)
SumCol(rows, col) ==
    IF rows = <<>> THEN 0 ELSE Head(rows)[col] + SumCol(Tail(rows), col)

\* a / b on Python numbers: ZeroDivisionError when b is 0
ZeroDivisionError == [k |-> "ZeroDivisionError", num |-> 0, den |-> 1]

\* compute_global_metrics without the "if total" and "if len(df)" guards
compute_global_metrics_unguarded(d) ==
    LET total == SumCol(d, "requests_total")
        success == SumCol(d, "success_2xx")
        errors == SumCol(d, "client_4xx") + SumCol(d, "server_5xx")
    IN  [total |-> total,
         pct_success |-> IF total # 0 THEN Fin(success * 100, total) ELSE ZeroDivisionError,
         pct_errors |-> IF total # 0 THEN Fin(errors * 100, total) ELSE ZeroDivisionError,
         p90_global |->
            IF Len(d) # 0
            THEN Fin(Percentile90Num([i \in 1..Len(d) |-> d[i].p90_elapsed_ms]), 1000)
            ELSE NaN]

compute_global_metrics(d) ==
    LET total == SumCol(d, "requests_total")
        success == SumCol(d, "success_2xx")
        errors == SumCol(d, "client_4xx") + SumCol(d, "server_5xx")
    IN  [total |-> total,
         pct_success |-> IF total # 0 THEN Fin(success * 100, total) ELSE Zero,
         pct_errors |-> IF total # 0 THEN Fin(errors * 100, total) ELSE Zero,
         p90_global |->
            IF Len(d) # 0
            THEN Fin(Percentile90Num([i \in 1..Len(d) |-> d[i].p90_elapsed_ms]), 1000)
            ELSE Zero]

-----------------------------------------------------------------------------
(* generar_reporte.py: build_endpoint_table *)

RECURSIVE InsertStr(_, _)
InsertStr(s, x) ==
    IF s = <<>> THEN <<x>>
    ELSE IF StrLess(x, Head(s)) THEN <<x>> \o s
    ELSE <<Head(s)>> \o InsertStr(Tail(s), x)

\* the group keys of df.groupby("endpoint_base"): distinct, ascending
RECURSIVE GroupKeys(_)
GroupKeys(d) ==
    IF d = <<>> THEN <<>>
    ELSE LET rest == GroupKeys(SubSeq(d, 1, Len(d) - 1))
             key == d[Len(d)].endpoint_base
         IN  IF \E i \in 1..Len(rest) : rest[i] = key THEN rest ELSE InsertStr(rest, key)

\* the rows of one group, in the order of df
RECURSIVE GroupRows(_, _)
GroupRows(d, key) ==
    IF d = <<>> THEN <<>>
    ELSE IF Head(d).endpoint_base = key THEN <<Head(d)>> \o GroupRows(Tail(d), key)
    ELSE GroupRows(Tail(d), key)

\* (x[col] * x["requests_total"]).sum(), col in hundredths
RECURSIVE WeightedSum(_, _)
WeightedSum(x, col) ==
    IF x = <<>> THEN 0
    ELSE Head(x)[col] * Head(x).requests_total + WeightedSum(Tail(x), col)

\* the pd.Series the lambda of build_endpoint_table returns for one group
GroupSeries(key, x) ==
    LET rt == SumCol(x, "requests_total")
    IN  [endpoint_base |-> key,
         requests_total |-> rt,
         success_2xx |-> SumCol(x, "success_2xx"),
         client_4xx |-> SumCol(x, "client_4xx"),
         server_5xx |-> SumCol(x, "server_5xx"),
         avg_elapsed_ms |-> Fin(WeightedSum(x, "avg_elapsed_ms"), 100 * Max(rt, 1)),
         p90_elapsed_ms |-> Fin(WeightedSum(x, "p90_elapsed_ms"), 100 * Max(rt, 1))]

\* the percentage columns without .where(requests_total > 0, 0.0)
WithPercentages_unguarded(s) ==
    [endpoint_base |-> s.endpoint_base,
     requests_total |-> s.requests_total,
     success_2xx |-> s.success_2xx,
     client_4xx |-> s.client_4xx,
     server_5xx |-> s.server_5xx,
     avg_elapsed_ms |-> s.avg_elapsed_ms,
     p90_elapsed_ms |-> s.p90_elapsed_ms,
     pct_success |-> Times100(SeriesDiv(s.success_2xx, s.requests_total)),
     pct_client_4xx |-> Times100(SeriesDiv(s.client_4xx, s.requests_total)),
     pct_server_5xx |-> Times100(SeriesDiv(s.server_5xx, s.requests_total))]

\* g after the three percentage columns are added (lines 40-61)
WithPercentages(s) ==
    [endpoint_base |-> s.endpoint_base,
     requests_total |-> s.requests_total,
     success_2xx |-> s.success_2xx,
     client_4xx |-> s.client_4xx,
     server_5xx |-> s.server_5xx,
     avg_elapsed_ms |-> s.avg_elapsed_ms,
     p90_elapsed_ms |-> s.p90_elapsed_ms,
     pct_success |->
        Where(Times100(SeriesDiv(s.success_2xx, s.requests_total)), s.requests_total > 0, Zero),
     pct_client_4xx |->
        Where(Times100(SeriesDiv(s.client_4xx, s.requests_total)), s.requests_total > 0, Zero),
     pct_server_5xx |->
        Where(Times100(SeriesDiv(s.server_5xx, s.requests_total)), s.requests_total > 0, Zero)]

\* g before sort_values: one row per endpoint_base, in group key order
GroupByApply(d) ==
    LET keys == GroupKeys(d)
    IN  [i \in 1..Len(keys) |-> WithPercentages(GroupSeries(keys[i], GroupRows(d, keys[i])))]

\* the five float columns rounded (lines 65-66)
RoundRow(s) ==
    [s EXCEPT !.avg_elapsed_ms = Round2(@), !.p90_elapsed_ms = Round2(@),
              !.pct_success = Round2(@), !.pct_client_4xx = Round2(@),
              !.pct_server_5xx = Round2(@)]

IndexPermutations(n) == {p \in [1..n -> 1..n] : \A i, j \in 1..n : i # j => p[i] # p[j]}

\* sort_values with ascending left at its default
SortValuesAscending(g) ==
    {[i \in 1..Len(g) |-> g[p[i]]] : p \in
        {q \in IndexPermutations(Len(g)) :
            \A i, j \in 1..Len(g) :
                i < j => g[q[i]].requests_total <= g[q[j]].requests_total}}

\* g.sort_values("requests_total", ascending=False): pandas sorts with
\* kind="quicksort", which promises no order among equal keys, so every
\* descending arrangement of the rows is a possible result
SortValuesDescending(g) ==
    {[i \in 1..Len(g) |-> g[p[i]]] : p \in
        {q \in IndexPermutations(Len(g)) :
            \A i, j \in 1..Len(g) :
                i < j => g[q[i]].requests_total >= g[q[j]].requests_total}}

\* the tables build_endpoint_table can return for df
build_endpoint_table(d) ==
    {[i \in 1..Len(g) |-> RoundRow(g[i])] : g \in SortValuesDescending(GroupByApply(d))}

-----------------------------------------------------------------------------
(* generar_reporte.py: render_html *)

\* greater or equal
AtLeast(f, umbral) ==
    CASE f.k = "fin" -> f.num * 100 >= umbral * f.den
      [] f.k = "inf" -> TRUE
      [] f.k = "nan" -> FALSE

\* render_html alerting on p90 >= umbral
render_html_at_least(table, umbral) ==
    [i \in 1..Len(table) |->
        [row |-> table[i],
         alerta_p90 |-> IF AtLeast(table[i].p90_elapsed_ms, umbral) THEN "SI" ELSE "NO"]]

\* df_view: df_endpoints with the column alerta_p90
render_html(table, umbral) ==
    [i \in 1..Len(table) |->
        [row |-> table[i],
         alerta_p90 |-> IF GreaterThan(table[i].p90_elapsed_ms, umbral) THEN "SI" ELSE "NO"]]

-----------------------------------------------------------------------------
(* The inputs of the model *)

\* the most lines read_jsonl reads from one input file
MaxLines == 3

\* the five fields compute_kpis reads with r.get
Rec(ts, ep, sc, el, pr) ==
    [timestamp_utc |-> ts, endpoint |-> ep, status_code |-> sc, elapsed_ms |-> el,
     parse_result |-> pr]

TsDay1 == <<"2", "0", "2", "4", "-", "0", "1", "-", "0", "1", "T", "1", "0", ":", "0", "0", ":", "0", "0", "Z">>

\* the same day, as strptime also accepts it
TsDay1Loose == <<"2", "0", "2", "4", "-", "1", "-", "1", "T", "9", ":", "0", "5", ":", "0", "3", "z">>

TsDay2 == <<"2", "0", "2", "4", "-", "0", "1", "-", "0", "2", "T", "2", "3", ":", "5", "9", ":", "5", "9", "Z">>

TsNotADate == <<"n", "o", "t", "-", "a", "-", "d", "a", "t", "e">>

EpGet == <<"/", "g", "e", "t">>

EpStatus == <<"/", "s", "t", "a", "t", "u", "s", "/", "4", "0", "3", "?", "x", "=", "1">>

Timestamps == {JNull, JStr(TsDay1Loose), JStr(TsNotADate)}

Endpoints == {JNull, JStr(EpStatus)}

StatusCodes == {JInt(302), JInt(503), JStr(<<"a", "b", "c">>)}

Elapsed == {JNull}

ParseResults == {JStr(ErrorStr), JNull, JBool(TRUE)}

\* the record the generator writes most often, varied in one field at a time,
\* and the combinations the error paths need
Records ==
    LET ts0 == JStr(TsDay1)
        ep0 == JStr(EpGet)
        sc0 == JInt(200)
        el0 == JFloat(10025)
        pr0 == JStr(OkStr)
    IN  {Rec(ts0, ep0, sc0, el0, pr0)}
        \cup {Rec(ts, ep0, sc0, el0, pr0) : ts \in Timestamps}
        \cup {Rec(ts0, ep, sc0, el0, pr0) : ep \in Endpoints}
        \cup {Rec(ts0, ep0, sc, el0, pr0) : sc \in StatusCodes}
        \cup {Rec(ts0, ep0, sc0, el, pr0) : el \in Elapsed}
        \cup {Rec(ts0, ep0, sc0, el0, pr) : pr \in ParseResults}
        \cup {Rec(ts0, ep0, JStr(<<"a", "b", "c">>), JNull, pr0),
              Rec(ts0, ep0, JNull, el0, JNull),
              Rec(JStr(TsNotADate), JNull, sc0, el0, pr0),
              Rec(JStr(TsDay2), JStr(EpStatus), JStr(<<"4", "0", "3">>),
                  JStr(<<"1", "2", "0", ".", "5">>), pr0)}

NoRec == Rec(JNull, JNull, JNull, JNull, JNull)

\* a line of the input as json.loads sees it after strip(): blank, not JSON,
\* a JSON value that is no object, or an object
BlankLine == [kind |-> "blank", rec |-> NoRec]

MalformedLine == [kind |-> "malformed", rec |-> NoRec]

ValueLine == [kind |-> "value", rec |-> NoRec]

ObjectLine(r) == [kind |-> "object", rec |-> r]

RECURSIVE SetToSeq(_)
SetToSeq(S) ==
    IF S = {} THEN <<>> ELSE LET x == CHOOSE y \in S : TRUE IN <<x>> \o SetToSeq(S \ {x})

\* the lines an input file of the model is made of; a file is a sequence of
\* indices into InputLines
GeneralLines ==
    <<BlankLine, MalformedLine, ValueLine>> \o SetToSeq({ObjectLine(r) : r \in Records})

EpBasicAuth == <<"/", "b", "a", "s", "i", "c", "-", "a", "u", "t", "h", "/", "u", "/", "p">>

\* latencies as the generator draws them, round(uniform(50, 800), 2), in
\* hundredths: 358.7, 196.67, 368.93, 395.8
SampleElapsed == {35870, 19667, 36893, 39580}

\* records as the generator writes them: four of one group that differ in
\* their latency only, and one of a group with a smaller key
SampleRecords ==
    {Rec(JStr(TsDay1), JStr(EpGet), JInt(200), JFloat(v), JStr(OkStr)) : v \in SampleElapsed}
        \cup {Rec(JStr(TsDay1), JStr(EpBasicAuth), JInt(200), JFloat(12050), JStr(ErrorStr))}

SampleLines == SetToSeq({ObjectLine(r) : r \in SampleRecords})

InputLines == GeneralLines \o SampleLines

LinesOfKind(kind) == {j \in 1..Len(GeneralLines) : InputLines[j].kind = kind}

\* the places of the sample lines in InputLines
SampleIndices == (Len(GeneralLines) + 1)..Len(InputLines)

\* the most lines of an input file made of sample lines
MaxSamples == 4

\* the most data rows of a KPI table that generar_reporte.py reads
MaxCsvRows == 3

CsvRow(date, base, rt, s2, c4, s5, pe, avg, p90) ==
    [date_utc |-> date, endpoint_base |-> base, requests_total |-> rt,
     success_2xx |-> s2, client_4xx |-> c4, server_5xx |-> s5, parse_errors |-> pe,
     avg_elapsed_ms |-> avg, p90_elapsed_ms |-> p90]

Day1 == <<"2", "0", "2", "4", "-", "0", "1", "-", "0", "1">>

Day2 == <<"2", "0", "2", "4", "-", "0", "1", "-", "0", "2">>

BaseGet == <<"/", "g", "e", "t">>

BaseStatus == <<"/", "s", "t", "a", "t", "u", "s">>

BaseXml == <<"/", "x", "m", "l">>

\* rows as write_csv writes them, and hand-made rows with requests_total = 0
CsvRows ==
    {CsvRow(Day1, BaseGet, 2, 2, 0, 0, 0, 10025, 11038),
     CsvRow(Day2, BaseGet, 1, 0, 0, 1, 1, 60050, 60050),
     CsvRow(Day1, BaseStatus, 2, 0, 2, 0, 0, 48000, 50000),
     CsvRow(Day2, BaseStatus, 1, 0, 1, 0, 1, 49000, 50001),
     CsvRow(Day1, BaseXml, 2, 1, 0, 1, 0, 30000, 49999),
     CsvRow(Day1, BaseXml, 0, 1, 2, 3, 1, 700, 900),
     CsvRow(Day2, BaseXml, 0, 0, 0, 0, 0, 0, 0),
     CsvRow(Day2, BaseStatus, 0, 2, 0, 0, 0, 60000, 80000)}

RECURSIVE SeqsUpTo(_, _)
SeqsUpTo(S, n) ==
    IF n = 0 THEN {<<>>}
    ELSE LET shorter == SeqsUpTo(S, n - 1)
         IN  shorter \cup {Append(s, x) : s \in shorter, x \in S}

\* the alert thresholds --umbral_p90, in hundredths
Umbrales == {49999, 50000, 50001}

-----------------------------------------------------------------------------
(* The state of one run of calcular_kpi.py *)

VARIABLES
    pc,           \* where main is
    file_lines,   \* the lines read_jsonl has read so far, as indices into InputLines
    input_open,   \* the input file handle of read_jsonl is open
    groups,       \* the local groups of compute_kpis
    returned,     \* what compute_kpis returned to main, if it returned
    err,          \* the exception that left main, if one did
    csv,          \* the KPI table file: written by write_csv, read by the report
    df,           \* generar_reporte.py: the table read by pd.read_csv
    metrics,      \* what compute_global_metrics returned
    df_endpoints, \* what build_endpoint_table returned
    umbral_p90,   \* the threshold given on the command line
    df_view,      \* the table render_html puts in the page
    max_retries,  \* http_client.py, request_with_retry: the argument max_retries
    attempt,      \* the loop variable attempt
    last_exc,     \* the attempt whose RequestException last_exc holds, 0 for None
    responses,    \* what session.request did at each attempt so far
    outcome       \* how request_with_retry ended, if it did

kpi_vars == <<file_lines, input_open, groups, returned>>

report_vars == <<df, metrics, df_endpoints, umbral_p90, df_view>>

http_vars == <<max_retries, attempt, last_exc, responses, outcome>>

vars == <<pc, err, csv, kpi_vars, report_vars, http_vars>>

NoOutcome == [kind |-> "none", status |-> 0, attempt |-> 0]

NoErr == [kind |-> "none", line |-> 0]

NotReturned == [some |-> FALSE, groups |-> <<>>]

NoFile == [exists |-> FALSE, rows |-> <<>>]

NoMetrics == [total |-> -1, pct_success |-> NaN, pct_errors |-> NaN, p90_global |-> NaN]

\* the files generar_reporte.py may find at --input: none, a table with only
\* the header (what write_csv writes for no groups), or a table with rows
ReportInputs ==
    {NoFile} \cup {[exists |-> TRUE, rows |-> rows] : rows \in SeqsUpTo(CsvRows, MaxCsvRows)}

\* nothing of the two table scripts has run
EtlIdle ==
    /\ file_lines = <<>>
    /\ input_open = FALSE
    /\ groups = <<>>
    /\ returned = NotReturned
    /\ err = NoErr
    /\ df = <<>>
    /\ metrics = NoMetrics
    /\ df_endpoints = <<>>
    /\ umbral_p90 = 0
    /\ df_view = <<>>

\* request_with_retry is not running
HttpIdle ==
    /\ max_retries = 0
    /\ attempt = 0
    /\ last_exc = 0
    /\ responses = <<>>
    /\ outcome = NoOutcome

\* either script is about to run
Init ==
    /\ EtlIdle
    /\ HttpIdle
    /\ \/ pc = "main" /\ csv = NoFile
       \/ pc = "report_main" /\ csv \in ReportInputs

\* main: os.path.exists(args.input) is false
MainInputMissing ==
    /\ pc = "main"
    /\ pc' = "kpi_failed"
    /\ err' = [kind |-> "FileNotFoundError", line |-> 0]
    /\ UNCHANGED <<http_vars, csv, kpi_vars, report_vars>>

\* main: compute_kpis(read_jsonl(args.input)) starts; the first next() opens
\* the input
MainComputeKpis ==
    /\ pc = "main"
    /\ pc' = "reading"
    /\ input_open' = TRUE
    /\ UNCHANGED <<http_vars, file_lines, groups, returned, err, csv, report_vars>>

\* read_jsonl: a line that is blank after strip() is skipped
ReadBlankLine ==
    /\ pc = "reading"
    /\ Len(file_lines) < MaxLines
    /\ \E j \in LinesOfKind("blank") : file_lines' = Append(file_lines, j)
    /\ UNCHANGED <<http_vars, pc, input_open, groups, returned, err, csv, report_vars>>

\* read_jsonl with enumerate(f) counting from 0
ReadMalformedLine_zero_based ==
    /\ pc = "reading"
    /\ Len(file_lines) < MaxLines
    /\ \E j \in LinesOfKind("malformed") : file_lines' = Append(file_lines, j)
    /\ pc' = "kpi_failed"
    /\ err' = [kind |-> "ValueError_json", line |-> Len(file_lines)]
    /\ input_open' = FALSE
    /\ UNCHANGED <<http_vars, groups, returned, csv, report_vars>>

\* read_jsonl: json.loads raises JSONDecodeError; ValueError with line_num
\* leaves the with block, compute_kpis and main
ReadMalformedLine ==
    /\ pc = "reading"
    /\ Len(file_lines) < MaxLines
    /\ \E j \in LinesOfKind("malformed") : file_lines' = Append(file_lines, j)
    /\ pc' = "kpi_failed"
    /\ err' = [kind |-> "ValueError_json", line |-> Len(file_lines) + 1]
    /\ input_open' = FALSE
    /\ UNCHANGED <<http_vars, groups, returned, csv, report_vars>>

\* read_jsonl yields a JSON value that is no object: r.get raises
\* AttributeError in compute_kpis, with the generator suspended at its yield
YieldNonObject ==
    /\ pc = "reading"
    /\ Len(file_lines) < MaxLines
    /\ \E j \in LinesOfKind("value") : file_lines' = Append(file_lines, j)
    /\ pc' = "kpi_failed"
    /\ err' = [kind |-> "AttributeError", line |-> 0]
    /\ UNCHANGED <<http_vars, input_open, groups, returned, csv, report_vars>>

\* read_jsonl yields an object and compute_kpis runs the body of its loop on it
YieldRecord ==
    /\ pc = "reading"
    /\ Len(file_lines) < MaxLines
    /\ \E j \in LinesOfKind("object") :
         LET res == LoopBody(groups, InputLines[j].rec)
         IN  /\ file_lines' = Append(file_lines, j)
             /\ groups' = res.groups
             /\ IF res.outcome = "raise"
                THEN /\ pc' = "kpi_failed"
                     /\ err' = [kind |-> "ValueError_strptime", line |-> 0]
                ELSE UNCHANGED <<pc, err>>
    /\ UNCHANGED <<http_vars, input_open, returned, csv, report_vars>>

\* read_jsonl: end of file; the with block closes the input, the for loop of
\* compute_kpis ends and groups is returned
ReadEof ==
    /\ pc = "reading"
    /\ pc' = "computed"
    /\ input_open' = FALSE
    /\ returned' = [some |-> TRUE, groups |-> groups]
    /\ UNCHANGED <<http_vars, file_lines, groups, err, csv, report_vars>>

\* main: write_csv(groups, args.output)
MainWriteCsv ==
    /\ pc = "computed"
    /\ pc' = "kpi_done"
    /\ csv' = [exists |-> TRUE, rows |-> write_csv(returned.groups)]
    /\ UNCHANGED <<http_vars, err, kpi_vars, report_vars>>

\* main returns, or its exception leaves the script, and the interpreter
\* exits. A read_jsonl generator still suspended at its yield is finalized:
\* GeneratorExit is raised at the yield and leaves the with block, which
\* closes the input
KpiExit_generator_not_closed ==
    /\ pc \in {"kpi_done", "kpi_failed"}
    /\ pc' = "kpi_exited"
    /\ UNCHANGED <<http_vars, err, csv, kpi_vars, report_vars>>

KpiExit ==
    /\ pc \in {"kpi_done", "kpi_failed"}
    /\ pc' = "kpi_exited"
    /\ input_open' = FALSE
    /\ UNCHANGED <<http_vars, file_lines, groups, returned, err, csv, report_vars>>

-----------------------------------------------------------------------------
(* One run of generar_reporte.py *)

\* main: os.path.exists(args.input) is false
ReportInputMissing ==
    /\ pc = "report_main"
    /\ ~csv.exists
    /\ pc' = "report_failed"
    /\ err' = [kind |-> "FileNotFoundError", line |-> 0]
    /\ UNCHANGED <<http_vars, csv, kpi_vars, report_vars>>

\* main: df = pd.read_csv(args.input)
ReportReadCsv ==
    /\ pc = "report_main"
    /\ csv.exists
    /\ pc' = "report_read"
    /\ df' = csv.rows
    /\ UNCHANGED <<http_vars, err, csv, kpi_vars, metrics, df_endpoints, umbral_p90, df_view>>

\* main: total, pct_success, pct_errors, p90_global = compute_global_metrics(df)
ReportGlobalMetrics ==
    /\ pc = "report_read"
    /\ pc' = "report_metrics"
    /\ metrics' = compute_global_metrics(df)
    /\ UNCHANGED <<http_vars, err, csv, kpi_vars, df, df_endpoints, umbral_p90, df_view>>

\* main: df_endpoints = build_endpoint_table(df)
ReportEndpointTable ==
    /\ pc = "report_metrics"
    /\ pc' = "report_table"
    /\ df_endpoints' \in build_endpoint_table(df)
    /\ UNCHANGED <<http_vars, err, csv, kpi_vars, df, metrics, umbral_p90, df_view>>

\* main: render_html(df_endpoints, ..., args.umbral_p90) and the page is written
ReportRenderHtml ==
    /\ pc = "report_table"
    /\ pc' = "report_done"
    /\ \E u \in Umbrales :
         /\ umbral_p90' = u
         /\ df_view' = render_html(df_endpoints, u)
    /\ UNCHANGED <<http_vars, err, csv, kpi_vars, df, metrics, df_endpoints>>

Next ==
    \/ MainInputMissing
    \/ MainComputeKpis
    \/ ReadBlankLine
    \/ ReadMalformedLine
    \/ YieldNonObject
    \/ YieldRecord
    \/ ReadEof
    \/ MainWriteCsv
    \/ KpiExit
    \/ ReportInputMissing
    \/ ReportReadCsv
    \/ ReportGlobalMetrics
    \/ ReportEndpointTable
    \/ ReportRenderHtml

Spec == Init /\ [][Next]_vars

-----------------------------------------------------------------------------
(* One run of calcular_kpi.py on an input file of generated records *)

InitKpi == Init /\ pc = "main"

\* read_jsonl yields a generated record and compute_kpis runs the body of its
\* loop on it
YieldSampleRecord ==
    /\ pc = "reading"
    /\ Len(file_lines) < MaxSamples
    /\ \E j \in SampleIndices :
         LET res == LoopBody(groups, InputLines[j].rec)
         IN  /\ file_lines' = Append(file_lines, j)
             /\ groups' = res.groups
             /\ IF res.outcome = "raise"
                THEN /\ pc' = "kpi_failed"
                     /\ err' = [kind |-> "ValueError_strptime", line |-> 0]
                ELSE UNCHANGED <<pc, err>>
    /\ UNCHANGED <<http_vars, input_open, returned, csv, report_vars>>

NextKpi ==
    \/ MainComputeKpis
    \/ YieldSampleRecord
    \/ ReadEof
    \/ MainWriteCsv

SpecKpi == InitKpi /\ [][NextKpi]_vars

-----------------------------------------------------------------------------
(* http_client.py: one call of request_with_retry *)

\* the largest max_retries a call of the model is given
MaxRetries == 4

\* the status codes session.request answers with
Statuses == {200, 403, 500}

Response(s) == [kind |-> "response", status |-> s]

\* session.request raised a requests.RequestException
NetworkError == [kind |-> "error", status |-> 0]

\* request_with_retry is called: last_exc = None, and the for loop takes the
\* first value of range(1, max_retries + 2), if there is one
InitRetry ==
    /\ EtlIdle
    /\ csv = NoFile
    /\ pc = "retry_loop"
    /\ max_retries \in -1..MaxRetries
    /\ attempt = 1
    /\ last_exc = 0
    /\ responses = <<>>
    /\ outcome = NoOutcome

\* the for loop has a value for attempt
InLoop == pc = "retry_loop" /\ attempt <= max_retries + 1

\* 403 with attempt <= max_retries, widened to every attempt
Retry403_always ==
    /\ InLoop
    /\ responses' = Append(responses, Response(403))
    /\ attempt' = attempt + 1
    /\ UNCHANGED <<pc, err, csv, kpi_vars, report_vars, max_retries, last_exc, outcome>>

\* resp.status_code == 403 and attempt <= max_retries: sleep, continue
Retry403 ==
    /\ InLoop
    /\ attempt <= max_retries
    /\ responses' = Append(responses, Response(403))
    /\ attempt' = attempt + 1
    /\ UNCHANGED <<pc, err, csv, kpi_vars, report_vars, max_retries, last_exc, outcome>>

\* return resp: the status is not 403, or it is and attempt > max_retries
ReturnResponse ==
    /\ InLoop
    /\ \E s \in Statuses :
         /\ s = 403 => attempt > max_retries
         /\ responses' = Append(responses, Response(s))
         /\ outcome' = [kind |-> "response", status |-> s, attempt |-> attempt]
    /\ pc' = "retry_returned"
    /\ UNCHANGED <<err, csv, kpi_vars, report_vars, max_retries, attempt, last_exc>>

\* except requests.RequestException with attempt <= max_retries: last_exc = e,
\* sleep, continue
RetryNetworkError ==
    /\ InLoop
    /\ attempt <= max_retries
    /\ responses' = Append(responses, NetworkError)
    /\ last_exc' = attempt
    /\ attempt' = attempt + 1
    /\ UNCHANGED <<pc, err, csv, kpi_vars, report_vars, max_retries, outcome>>

\* except requests.RequestException with attempt > max_retries: last_exc = e,
\* raise
RaiseNetworkError ==
    /\ InLoop
    /\ attempt > max_retries
    /\ responses' = Append(responses, NetworkError)
    /\ last_exc' = attempt
    /\ outcome' = [kind |-> "RequestException", status |-> 0, attempt |-> attempt]
    /\ pc' = "retry_raised"
    /\ UNCHANGED <<err, csv, kpi_vars, report_vars, max_retries, attempt>>

\* range(1, max_retries + 2) is exhausted: raise last_exc if there is one,
\* RuntimeError otherwise
AfterLoop ==
    /\ pc = "retry_loop"
    /\ attempt > max_retries + 1
    /\ outcome' = IF last_exc # 0
                  THEN [kind |-> "last_exc", status |-> 0, attempt |-> last_exc]
                  ELSE [kind |-> "RuntimeError", status |-> 0, attempt |-> 0]
    /\ pc' = "retry_raised"
    /\ UNCHANGED <<err, csv, kpi_vars, report_vars, max_retries, attempt, last_exc, responses>>

NextRetry ==
    \/ Retry403
    \/ ReturnResponse
    \/ RetryNetworkError
    \/ RaiseNetworkError
    \/ AfterLoop

SpecRetry == InitRetry /\ [][NextRetry]_vars

-----------------------------------------------------------------------------
(* What a line of the input says, computed from the line itself *)

\* main was left by an exception / main wrote the table, whether or not the
\* interpreter has exited since
RunFailed == pc = "kpi_failed" \/ (pc = "kpi_exited" /\ err # NoErr)

RunCompleted == pc = "kpi_done" \/ (pc = "kpi_exited" /\ err = NoErr)

IsRecord(l) == l.kind = "object"

HasKeyFields(l) ==
    IsRecord(l) /\ ~IsNone(l.rec.timestamp_utc) /\ ~IsNone(l.rec.endpoint)

TimestampParses(l) == parse_date_utc(PyStr(l.rec.timestamp_utc)).ok

\* the record of line l has a timestamp_utc that strptime rejects
MalformedTimestamp(l) ==
    IsRecord(l) /\ ~IsNone(l.rec.timestamp_utc) /\ ~TimestampParses(l)

\* the record of line l is added to a group
Contributing(l) == HasKeyFields(l) /\ TimestampParses(l)

KeyOf(l) ==
    <<parse_date_utc(PyStr(l.rec.timestamp_utc)).date,
      normalize_endpoint(PyStr(l.rec.endpoint))>>

StatusCoercionFails(l) == ~PyInt(l.rec.status_code).ok

ElapsedCoercionFails(l) == ~PyFloat(l.rec.elapsed_ms).ok

\* the status code after coercion: 0 when int() fails
CoercedStatus(l) ==
    IF StatusCoercionFails(l) THEN 0 ELSE PyInt(l.rec.status_code).v

\* the elapsed time after coercion: 0.0 when float() fails
CoercedElapsed(l) ==
    IF ElapsedCoercionFails(l) THEN 0 ELSE PyFloat(l.rec.elapsed_ms).v

\* the resolved parse outcome: "error" when a coercion failed or the field is
\* absent, its string form otherwise
ResolvedParseResult(l) ==
    IF StatusCoercionFails(l) \/ ElapsedCoercionFails(l) \/ IsNone(l.rec.parse_result)
    THEN ErrorStr
    ELSE PyStr(l.rec.parse_result)

FactsOf(l) ==
    [kind |-> l.kind,
     ts_absent |-> IsRecord(l) /\ IsNone(l.rec.timestamp_utc),
     endpoint_absent |-> IsRecord(l) /\ IsNone(l.rec.endpoint),
     ts_malformed |-> MalformedTimestamp(l),
     contributing |-> Contributing(l),
     key |-> IF Contributing(l) THEN KeyOf(l) ELSE <<>>,
     status_fails |-> IsRecord(l) /\ StatusCoercionFails(l),
     elapsed_fails |-> IsRecord(l) /\ ElapsedCoercionFails(l),
     status |-> CoercedStatus(l),
     elapsed |-> CoercedElapsed(l),
     resolved |-> ResolvedParseResult(l),
     parse_result |-> l.rec.parse_result]

RECURSIVE FactsOfAll(_)
FactsOfAll(ls) == IF ls = <<>> THEN <<>> ELSE <<FactsOf(Head(ls))>> \o FactsOfAll(Tail(ls))

\* the facts of every line of InputLines
LineFacts == FactsOfAll(InputLines)

\* the facts of the i-th line read
Fact(i) == LineFacts[file_lines[i]]

LinesRead == 1..Len(file_lines)

\* the lines whose records were added to the group of key k
Contributors(k) == {i \in LinesRead : Fact(i).contributing /\ Fact(i).key = k}

CountIn(k, lo, hi) ==
    Cardinality({i \in Contributors(k) : lo <= Fact(i).status /\ Fact(i).status <= hi})

\* the accumulator of key k in g, a fresh one if g has none
AggOf(g, k) == IF KeyIndex(g, k) = 0 THEN NewAgg ELSE g[KeyIndex(g, k)].agg

\* this step read one more line of the input
ReadsLine == Len(file_lines') = Len(file_lines) + 1

\* the facts of the line this step read
NewFact == LineFacts[file_lines'[Len(file_lines')]]

-----------------------------------------------------------------------------
(* C1 *)

\* C1 as stated: in every group, requests_total = len(elapsed) = the number of
\* contributing records = success_2xx + client_4xx + server_5xx + the number of
\* contributing records whose coerced status lies outside 200-599.
C1_AsStated ==
    \A e \in 1..Len(groups) :
        LET a == groups[e].agg
            c == Contributors(groups[e].key)
            outside == Cardinality({i \in c : Fact(i).status < 200 \/ Fact(i).status > 599})
        IN  /\ a.requests_total = Len(a.elapsed)
            /\ a.requests_total = Cardinality(c)
            /\ a.requests_total = a.success_2xx + a.client_4xx + a.server_5xx + outside

\* C1 amended: every key with a contributing record has exactly one group; in
\* every group requests_total = len(elapsed) = the number of contributing
\* records, each bucket counts the contributing records whose coerced status
\* lies in its range, and requests_total = success_2xx + client_4xx +
\* server_5xx + the number of contributing records whose coerced status lies in
\* none of 200-299, 400-499, 500-599 (a 3xx status is in no bucket).
C1_Counters ==
    /\ \A i \in LinesRead :
          Fact(i).contributing =>
              Cardinality({e \in 1..Len(groups) : groups[e].key = Fact(i).key}) = 1
    /\ \A e \in 1..Len(groups) :
          LET a == groups[e].agg
              k == groups[e].key
              c == Contributors(k)
              unbucketed == Cardinality({i \in c :
                               LET sc == Fact(i).status
                               IN  ~(200 <= sc /\ sc <= 299) /\ ~(400 <= sc /\ sc <= 499)
                                   /\ ~(500 <= sc /\ sc <= 599)})
          IN  /\ a.requests_total = Len(a.elapsed)
              /\ a.requests_total = Cardinality(c)
              /\ a.requests_total >= 1
              /\ a.success_2xx = CountIn(k, 200, 299)
              /\ a.client_4xx = CountIn(k, 400, 499)
              /\ a.server_5xx = CountIn(k, 500, 599)
              /\ a.requests_total = a.success_2xx + a.client_4xx + a.server_5xx + unbucketed

\* a group that received a 2xx, a 3xx and a record whose status did not coerce
C1_Witness ==
    \E e \in 1..Len(groups) :
        /\ groups[e].agg.requests_total = 3
        /\ groups[e].agg.success_2xx = 1
        /\ \E i \in Contributors(groups[e].key) : Fact(i).status = 302
        /\ \E i \in Contributors(groups[e].key) : Fact(i).status_fails

-----------------------------------------------------------------------------
(* C2 *)

\* C2: in every group parse_errors <= requests_total, and parse_errors is the
\* number of contributing records whose resolved parse outcome is not "ok".
C2_ParseErrors ==
    \A e \in 1..Len(groups) :
        LET a == groups[e].agg
        IN  /\ a.parse_errors <= a.requests_total
            /\ a.parse_errors =
                  Cardinality({i \in Contributors(groups[e].key) : Fact(i).resolved # OkStr})

\* a group with an "ok" record, a record whose parse_result is the JSON true,
\* and a record with parse_result "ok" whose elapsed_ms did not coerce
C2_Witness ==
    \E e \in 1..Len(groups) :
        LET c == Contributors(groups[e].key)
        IN  /\ groups[e].agg.parse_errors = 2
            /\ groups[e].agg.requests_total = 3
            /\ \E i \in c : Fact(i).parse_result = JBool(TRUE)
            /\ \E i \in c : Fact(i).parse_result = JStr(OkStr) /\ Fact(i).elapsed_fails

-----------------------------------------------------------------------------
(* C3 *)

\* C3: a step that reads a record whose timestamp_utc or endpoint is absent
\* changes no group and no accumulator, raises nothing, and leaves
\* compute_kpis in its loop, ready for the next record.
C3_DroppedRecordFrame ==
    [][(ReadsLine /\ (NewFact.ts_absent \/ NewFact.endpoint_absent))
       => (groups' = groups /\ pc' = "reading" /\ err' = NoErr
           /\ returned' = returned /\ csv' = csv)]_vars

\* after a record was added, a record without endpoint and one without
\* timestamp_utc were read, and the run went on to return the groups
C3_Witness ==
    /\ pc = "computed"
    /\ Len(file_lines) = 3
    /\ Fact(1).contributing
    /\ Fact(2).endpoint_absent /\ ~Fact(2).ts_absent
    /\ Fact(3).ts_absent /\ ~Fact(3).endpoint_absent
    /\ Len(returned.groups) = 1

-----------------------------------------------------------------------------
(* C4 *)

\* C4: once read_jsonl has read a line that is not JSON, the run has failed
\* with the ValueError that carries the 1-based number of that line (blank
\* lines counted), it is the last line read, compute_kpis has returned no
\* groups, whatever lines preceded it, and no output file is written.
C4_MalformedLineIsFatal ==
    \A i \in LinesRead :
        Fact(i).kind = "malformed" =>
            /\ RunFailed
            /\ err = [kind |-> "ValueError_json", line |-> i]
            /\ i = Len(file_lines)
            /\ returned = NotReturned
            /\ ~csv.exists

\* the third line is not JSON, after a blank line and a record that was added
C4_Witness ==
    /\ Len(file_lines) = 3
    /\ Fact(1).kind = "blank"
    /\ Fact(2).contributing
    /\ Fact(3).kind = "malformed"
    /\ Len(groups) = 1
    /\ err.line = 3

-----------------------------------------------------------------------------
(* C5 *)

\* C5: a step that reads a record with timestamp_utc and endpoint (the
\* timestamp parsing) whose status_code or elapsed_ms does not coerce adds the
\* record to its group: requests_total + 1, parse_errors + 1 (also when both
\* fail, and when parse_result was "ok"), the sample appended is the coerced
\* elapsed time (0.0 if it failed), a failed status_code leaves the three
\* buckets alone, and nothing is raised.
C5_CoercionFailureIsCounted ==
    [][(ReadsLine /\ NewFact.contributing
          /\ (NewFact.status_fails \/ NewFact.elapsed_fails))
       => LET k == NewFact.key
              a == AggOf(groups, k)
              b == AggOf(groups', k)
          IN  /\ KeyIndex(groups', k) # 0
              /\ b.requests_total = a.requests_total + 1
              /\ b.parse_errors = a.parse_errors + 1
              /\ b.elapsed = Append(a.elapsed, NewFact.elapsed)
              /\ NewFact.elapsed_fails => b.elapsed[Len(b.elapsed)] = 0
              /\ NewFact.status_fails =>
                    /\ b.success_2xx = a.success_2xx
                    /\ b.client_4xx = a.client_4xx
                    /\ b.server_5xx = a.server_5xx
              /\ pc' = "reading"
              /\ err' = NoErr]_vars

\* a group that holds a record of which both coercions failed and a record
\* of which only the status failed, both with parse_result "ok"
C5_Witness ==
    \E e \in 1..Len(groups) :
        LET c == Contributors(groups[e].key)
            a == groups[e].agg
        IN  /\ a.parse_errors = 2
            /\ a.requests_total = 2
            /\ a.success_2xx + a.client_4xx + a.server_5xx = 0
            /\ \E i \in c : /\ Fact(i).status_fails /\ Fact(i).elapsed_fails
                            /\ Fact(i).parse_result = JStr(OkStr)
            /\ \E i \in c : /\ Fact(i).status_fails /\ ~Fact(i).elapsed_fails
                            /\ Fact(i).parse_result = JStr(OkStr)

-----------------------------------------------------------------------------
(* C6 *)

\* what a fatal timestamp leaves behind
AbortedByTimestamp ==
    /\ RunFailed
    /\ err.kind = "ValueError_strptime"
    /\ returned = NotReturned
    /\ ~csv.exists

\* C6 as stated: every record read whose timestamp_utc is present and does not
\* match the format aborts the aggregation: it is the last line read, no
\* groups are returned and no output file is written.
C6_AsStated ==
    \A i \in LinesRead :
        Fact(i).ts_malformed => (i = Len(file_lines) /\ AbortedByTimestamp)

\* C6 amended: a record read whose timestamp_utc is present and does not match
\* the format, and whose endpoint is present, aborts the aggregation (last
\* line read, ValueError, no groups returned, no output file); when its
\* endpoint is absent the record is dropped like any record without endpoint,
\* and the run has not failed on it.
C6_MalformedTimestampIsFatal ==
    /\ \A i \in LinesRead :
          (Fact(i).ts_malformed /\ ~Fact(i).endpoint_absent)
              => (i = Len(file_lines) /\ AbortedByTimestamp)
    /\ (file_lines # <<>> /\ Fact(Len(file_lines)).ts_malformed
          /\ Fact(Len(file_lines)).endpoint_absent)
          => ~RunFailed

\* the run was aborted by a malformed timestamp after a record without
\* timestamp_utc was dropped and a record was added
C6_Witness ==
    /\ Len(file_lines) = 3
    /\ Fact(1).ts_absent
    /\ Fact(2).contributing
    /\ Fact(3).ts_malformed /\ ~Fact(3).endpoint_absent
    /\ AbortedByTimestamp
    /\ Len(groups) = 1

-----------------------------------------------------------------------------
(* C7 *)

TableBuilt == pc \in {"report_table", "report_done"}

SortedDescending(tbl) ==
    \A i, j \in 1..Len(tbl) : i < j => tbl[i].requests_total >= tbl[j].requests_total

\* the place of endpoint_base b in the table g
PlaceOf(g, b) == CHOOSE p \in 1..Len(g) : g[p].endpoint_base = b

\* C7 as stated: the Endpoint Summary is sorted descending by requests_total
\* and rows with equal requests_total keep the relative order they had before
\* the sort (the order of the groups of groupby).
C7_AsStated ==
    TableBuilt =>
        /\ SortedDescending(df_endpoints)
        /\ \A i, j \in 1..Len(df_endpoints) :
              (i < j /\ df_endpoints[i].requests_total = df_endpoints[j].requests_total)
                  => PlaceOf(GroupByApply(df), df_endpoints[i].endpoint_base)
                        < PlaceOf(GroupByApply(df), df_endpoints[j].endpoint_base)

\* C7 amended: the Endpoint Summary holds the rows of the groups, each once,
\* sorted descending by requests_total; the order among rows with equal
\* requests_total is not determined.
C7_SortedDescending ==
    TableBuilt =>
        LET g == GroupByApply(df)
        IN  /\ SortedDescending(df_endpoints)
            /\ Len(df_endpoints) = Len(g)
            /\ \A p \in 1..Len(g) :
                  Cardinality({i \in 1..Len(df_endpoints) :
                                  df_endpoints[i] = RoundRow(g[p])}) = 1

\* three endpoints, the two with the larger, equal requests_total in the
\* reverse of their group order
C7_Witness ==
    /\ pc = "report_table"
    /\ Len(df_endpoints) = 3
    /\ df_endpoints[1].requests_total = df_endpoints[2].requests_total
    /\ df_endpoints[2].requests_total > df_endpoints[3].requests_total
    /\ StrLess(df_endpoints[2].endpoint_base, df_endpoints[1].endpoint_base)

-----------------------------------------------------------------------------
(* C8 *)

\* the weighted p90 of endpoint_base b over the rows of df, rounded to 2
\* decimals, in hundredths
RoundedWeightedP90(b) ==
    LET x == GroupRows(df, b)
    IN  RoundHalfEven(WeightedSum(x, "p90_elapsed_ms"), Max(SumCol(x, "requests_total"), 1))

\* C8: the page has one row per Endpoint Summary row, and the row's flag is
\* "SI" exactly when the rounded weighted p90 of its endpoint_base is strictly
\* greater than umbral_p90, "NO" otherwise.
C8_AlertIffAboveThreshold ==
    pc = "report_done" =>
        /\ Len(df_view) = Len(df_endpoints)
        /\ \A i \in 1..Len(df_view) :
              LET h == RoundedWeightedP90(df_view[i].row.endpoint_base)
              IN  /\ df_view[i].row = df_endpoints[i]
                  /\ df_view[i].row.p90_elapsed_ms = Fin(h, 100)
                  /\ df_view[i].alerta_p90 \in {"SI", "NO"}
                  /\ df_view[i].alerta_p90 = "SI" <=> h > umbral_p90

\* a row whose weighted p90 is above the threshold before rounding and equal
\* to it after, flagged "NO", beside a row flagged "SI"
C8_Witness ==
    /\ pc = "report_done"
    /\ \E i \in 1..Len(df_view) :
          LET x == GroupRows(df, df_view[i].row.endpoint_base)
          IN  /\ df_view[i].alerta_p90 = "NO"
              /\ df_view[i].row.p90_elapsed_ms = Fin(umbral_p90, 100)
              /\ WeightedSum(x, "p90_elapsed_ms") > umbral_p90 * SumCol(x, "requests_total")
    /\ \E i \in 1..Len(df_view) : df_view[i].alerta_p90 = "SI"

-----------------------------------------------------------------------------
(* C9 *)

\* no line read holds a record
NoRecords == \A i \in LinesRead : Fact(i).kind = "blank"

\* C9: a KPI run on an input without records fails on nothing but a missing
\* file, returns no groups and writes a table without rows; the report run on
\* a table without rows does not fail and yields total = 0, pct_success = 0,
\* pct_errors = 0, p90_global = 0, an Endpoint Summary without rows and a
\* page without rows.
C9_EmptyInput ==
    /\ (RunFailed /\ NoRecords) => err.kind = "FileNotFoundError"
    /\ (pc = "computed" /\ NoRecords) => returned = [some |-> TRUE, groups |-> <<>>]
    /\ (RunCompleted /\ NoRecords) => (csv = [exists |-> TRUE, rows |-> <<>>] /\ err = NoErr)
    /\ pc = "report_failed" => ~csv.exists
    /\ (pc \in {"report_metrics", "report_table", "report_done"} /\ df = <<>>) =>
          /\ metrics.total = 0
          /\ IsZero(metrics.pct_success)
          /\ IsZero(metrics.pct_errors)
          /\ IsZero(metrics.p90_global)
          /\ err = NoErr
    /\ (TableBuilt /\ df = <<>>) => df_endpoints = <<>>
    /\ (pc = "report_done" /\ df = <<>>) => df_view = <<>>

\* the report has run to its end on the table write_csv writes for no groups
C9_Witness ==
    /\ pc = "report_done"
    /\ csv = [exists |-> TRUE, rows |-> write_csv(<<>>)]
    /\ df = <<>>
    /\ metrics.total = 0
    /\ df_endpoints = <<>>

-----------------------------------------------------------------------------
(* C10 *)

\* C10: every endpoint_base of df has a row in the Endpoint Summary, and the
\* row of an endpoint_base whose KPI rows all have requests_total = 0 has
\* avg_elapsed_ms = 0, p90_elapsed_ms = 0 and the three percentages = 0,
\* whatever the counts and latencies of those rows.
C10_ZeroTotalGuard ==
    TableBuilt =>
        /\ \A j \in 1..Len(df) :
              \E i \in 1..Len(df_endpoints) :
                  df_endpoints[i].endpoint_base = df[j].endpoint_base
        /\ \A i \in 1..Len(df_endpoints) :
              LET row == df_endpoints[i]
                  x == GroupRows(df, row.endpoint_base)
              IN  (\A j \in 1..Len(x) : x[j].requests_total = 0) =>
                      /\ row.requests_total = 0
                      /\ IsZero(row.avg_elapsed_ms)
                      /\ IsZero(row.p90_elapsed_ms)
                      /\ IsZero(row.pct_success)
                      /\ IsZero(row.pct_client_4xx)
                      /\ IsZero(row.pct_server_5xx)

\* an endpoint_base with requests_total = 0 in all its rows, of which one
\* has non-zero counts and latencies, beside an endpoint_base with requests
C10_Witness ==
    /\ pc = "report_table"
    /\ \E i \in 1..Len(df_endpoints) :
          LET x == GroupRows(df, df_endpoints[i].endpoint_base)
          IN  /\ df_endpoints[i].requests_total = 0
              /\ Len(x) = 2
              /\ df_endpoints[i].success_2xx > 0
              /\ \E j \in 1..Len(x) : x[j].p90_elapsed_ms > 0 /\ x[j].avg_elapsed_ms > 0
    /\ \E i \in 1..Len(df_endpoints) : df_endpoints[i].requests_total > 0

-----------------------------------------------------------------------------
(* C11 *)

\* the groups compute_kpis holds after the lines ls, read in this order
RECURSIVE GroupsAfter(_)
GroupsAfter(ls) ==
    IF ls = <<>> THEN <<>>
    ELSE LoopBody(GroupsAfter(SubSeq(ls, 1, Len(ls) - 1)), InputLines[ls[Len(ls)]].rec).groups

\* the accumulator of key k in the groups g
AggAt(g, k) == g[KeyIndex(g, k)].agg

GroupKeySet(g) == {g[i].key : i \in 1..Len(g)}

\* what a group is to its reader: the counters and the two statistics
GroupView(a) ==
    [requests_total |-> a.requests_total, success_2xx |-> a.success_2xx,
     client_4xx |-> a.client_4xx, server_5xx |-> a.server_5xx,
     parse_errors |-> a.parse_errors,
     avg_elapsed_ms |-> Agg_avg_elapsed_ms(a), p90_elapsed_ms |-> Agg_p90_elapsed_ms(a)]

RowsAscending(rows) ==
    \A i, j \in 1..Len(rows) :
        i < j => KeyLess(<<rows[i].date_utc, rows[i].endpoint_base>>,
                         <<rows[j].date_utc, rows[j].endpoint_base>>)

\* C11: the result of compute_kpis does not depend on the order of the
\* records. Every order of the lines of a file is compared with one order of
\* the same lines, the ascending one: the groups returned have the same keys,
\* counters, avg_elapsed_ms and p90_elapsed_ms, and the rows written are the
\* same and ascending by (date_utc, endpoint_base).
C11_OrderIndependent ==
    LET sorted == GroupsAfter(SortAsc(file_lines))
    IN  /\ pc = "computed" =>
              /\ GroupKeySet(returned.groups) = GroupKeySet(sorted)
              /\ \A k \in GroupKeySet(sorted) :
                    GroupView(AggAt(returned.groups, k)) = GroupView(AggAt(sorted, k))
        /\ pc = "kpi_done" =>
              /\ csv.rows = write_csv(sorted)
              /\ RowsAscending(csv.rows)

-----------------------------------------------------------------------------
(* C12 *)

\* the exit paths of a run that opened the input
CompletedNormally == err = NoErr /\ csv.exists

FailedInReadJsonl == err.kind = "ValueError_json"

FailedInComputeKpis == err.kind \in {"ValueError_strptime", "AttributeError"}

-----------------------------------------------------------------------------
(* C13 *)

RetryEnded == pc \in {"retry_returned", "retry_raised"}

\* C13: with max_retries >= 0, whatever session.request does at each attempt,
\* request_with_retry issues at most max_retries + 1 requests, one per value
\* of the attempt counter that 403 retries and network-error retries share;
\* it ends at one of these attempts, by returning that attempt's response (a
\* 403 only at attempt max_retries + 1) or by raising that attempt's network
\* error at attempt max_retries + 1; the loop never runs out, so neither
\* raise after it is reached.
C13_BoundedRetries ==
    max_retries >= 0 =>
        /\ Len(responses) <= max_retries + 1
        /\ pc = "retry_loop" => (Len(responses) = attempt - 1 /\ attempt <= max_retries + 1)
        /\ \A i \in 1..Len(responses) :
              (i < Len(responses) \/ ~RetryEnded) =>
                  responses[i] \in {Response(403), NetworkError}
        /\ RetryEnded =>
              /\ outcome.kind \in {"response", "RequestException"}
              /\ outcome.attempt = Len(responses)
              /\ outcome.attempt = attempt
        /\ pc = "retry_returned" =>
              /\ outcome.kind = "response"
              /\ responses[Len(responses)] = Response(outcome.status)
              /\ outcome.status = 403 => Len(responses) = max_retries + 1
        /\ pc = "retry_raised" =>
              /\ outcome.kind = "RequestException"
              /\ responses[Len(responses)] = NetworkError
              /\ last_exc = Len(responses)
              /\ Len(responses) = max_retries + 1

\* max_retries = 2: a 403, then a network error, then a 403 that is returned
\* at the third and last attempt
C13_Witness ==
    /\ pc = "retry_returned"
    /\ max_retries = 2
    /\ responses = <<Response(403), NetworkError, Response(403)>>
    /\ outcome = [kind |-> "response", status |-> 403, attempt |-> 3]

=============================================================================
